---- MODULE Spec2Model ----
(***************************************************************************)
(* bhtom2: the template helpers of bhtom2/templatetags/dataproduct_extras  *)
(* over a store of DataProduct and ReducedDatum rows, object permissions   *)
(* and the process settings.  Every helper is one action: it reads the     *)
(* store and the settings and leaves its outcome (the mapping handed to    *)
(* the template partial, or the error it ended with) in `call`.            *)
(* bhtom2/settings.py, which Django executes at startup, is one action     *)
(* more: it builds the settings from the secret file.                      *)
(***************************************************************************)
EXTENDS Integers, Sequences, FiniteSets, TLC

VARIABLES settings, dataproducts, reduceddatums, perms, user_groups, call

vars == <<settings, dataproducts, reduceddatums, perms, user_groups, call>>
store == <<dataproducts, reduceddatums, perms, user_groups>>

(***************************************************************************)
(* Bounds of the model.                                                    *)
(***************************************************************************)
MaxRecords == 2       \* rows (DataProduct + ReducedDatum) of a store of Spec
MaxPhot == 3          \* ReducedDatum rows of a store of SpecPhot
MaxTime == 2          \* timestamps and creation times are 1..MaxTime
MaxLimit == 2         \* recent_photometry is called with limit 0..MaxLimit
MaxSaved == 51        \* length of data_products['saved']
MaxUnsaved == 1       \* length of data_products['unsaved']
MaxPage == 4          \* numeric 'page_saved' values are -1..MaxPage
SmallStore == 1       \* rows of a store of SpecAll
MaxKeys == 2          \* keys written in bhtom2/.bhtom.env
MaxText == 3          \* characters of a value that settings.py parses

(***************************************************************************)
(* Program constants.                                                      *)
(***************************************************************************)
PER_PAGE == 25

NoValue == 0          \* None: a null foreign key, an argument left out

Targets == {1, 2}
Users == {"alice", "bob", "root"}
superusers == {"root"}
Groups == {"observers", "reviewers"}
VIEW_DATAPRODUCT == "view_dataproduct"
VIEW_REDUCEDDATUM == "view_reduceddatum"
MAGNITUDE == "MAGNITUDE"
Units == {MAGNITUDE, "MILLIJANSKY"}
Filters == {"r", "V"}

\* settings.DATA_PRODUCT_TYPES as settings.py writes it: key -> (name, label);
\* the helpers read element [0].
DATA_PRODUCT_TYPES ==
    [k \in {"photometry", "fits_file", "spectroscopy", "image_file"} |->
        <<k, CASE k = "photometry" -> "Photometry"
               [] k = "fits_file" -> "FITS File"
               [] k = "spectroscopy" -> "Spectroscopy"
               [] OTHER -> "Image File">>]

\* A local_settings module may replace any setting (settings.py, the import at
\* its end); the mappings drawn here drop at most one of the two keys read.
Restrict(f, S) == [k \in S |-> f[k]]

SettingsFull ==
    [TARGET_PERMISSIONS_ONLY : BOOLEAN, DATA_PRODUCT_TYPES : {DATA_PRODUCT_TYPES}]

SettingsAny ==
    [TARGET_PERMISSIONS_ONLY : BOOLEAN,
     DATA_PRODUCT_TYPES :
        {Restrict(DATA_PRODUCT_TYPES, DOMAIN DATA_PRODUCT_TYPES \ D) :
            D \in {{}, {"photometry"}, {"spectroscopy"}}}]

(***************************************************************************)
(* The stored rows.  ReducedDatum.value is the magnitude of a photometry   *)
(* row and the serialized spectrum of a spectroscopy row; a value is       *)
(* derived from the row's pk, so that a plotted point or series names the  *)
(* row it came from.                                                       *)
(***************************************************************************)
Magnitude(pk) == [kind |-> "number", a |-> 10 * pk, b |-> 0]
Spectrum(pk) == [kind |-> "spectrum", a |-> pk, b |-> 10 * pk]
Garbage(pk) == [kind |-> "garbage", a |-> pk, b |-> 0]

DataProductRows ==
    [target : Targets, data_product_type : {"photometry", "spectroscopy"},
     created : 1..MaxTime]

\* What is drawn for a ReducedDatum row: every field but value and error.
PhotometryShape(t, ty, u, ts, f) ==
    [target |-> t, data_type |-> ty, value_unit |-> u, timestamp |-> ts,
     filter |-> f, data_product |-> NoValue, content |-> "magnitude"]

SpectroscopyShape(dp, good) ==
    [target |-> 1, data_type |-> "spectroscopy", value_unit |-> "FLUX",
     timestamp |-> 1, filter |-> "", data_product |-> dp,
     content |-> IF good THEN "spectrum" ELSE "garbage"]

\* The row of primary key pk with the drawn fields.
Row(pk, shape) ==
    [target |-> shape.target, data_type |-> shape.data_type,
     value_unit |-> shape.value_unit, timestamp |-> shape.timestamp,
     filter |-> shape.filter, data_product |-> shape.data_product,
     value |-> CASE shape.content = "magnitude" -> Magnitude(pk)
                 [] shape.content = "spectrum" -> Spectrum(pk)
                 [] OTHER -> Garbage(pk),
     error |-> pk]

\* The ReducedDatum rows a store of Spec may hold beside n DataProducts:
\* photometry of either target in either unit, and spectra, good or not, of
\* any of the DataProducts or of none.
ReducedDatumShapes(n) ==
    {PhotometryShape(t, "photometry", u, 1, "r") : t \in Targets, u \in Units}
    \cup {SpectroscopyShape(dp, good) : dp \in 0..n, good \in BOOLEAN}

\* The ReducedDatum rows a store of SpecPhot may hold: the photometry of
\* target 1 in every unit, time and filter, one photometry row of target 2 and
\* one row of target 1 that is no photometry.
PhotometryShapes ==
    {PhotometryShape(1, "photometry", u, ts, f) :
        u \in Units, ts \in 1..MaxTime, f \in Filters}
    \cup {PhotometryShape(2, "photometry", MAGNITUDE, MaxTime, "r"),
          PhotometryShape(1, "spectroscopy", MAGNITUDE, MaxTime, "r")}

ObjectPermissions(ps, rs) ==
    SUBSET ({<<"alice", VIEW_DATAPRODUCT, pk>> : pk \in DOMAIN ps}
            \cup {<<"alice", VIEW_REDUCEDDATUM, pk>> : pk \in DOMAIN rs})

NoCall == [helper |-> "none"]

\* No user belongs to a group.
NoGroups == [user \in Users |-> {}]

InitStore(maxRows) ==
    /\ \E n \in 0..maxRows : \E m \in 0..(maxRows - n) :
          /\ dataproducts \in [1..n -> DataProductRows]
          /\ \E shapes \in [1..m -> ReducedDatumShapes(n)] :
                reduceddatums = [pk \in 1..m |-> Row(pk, shapes[pk])]
    /\ perms \in ObjectPermissions(dataproducts, reduceddatums)
    /\ user_groups = NoGroups
    /\ call = NoCall

Init ==
    /\ settings \in SettingsAny
    /\ InitStore(MaxRecords)

(***************************************************************************)
(* The ORM and the permission backend, as the helpers use them.            *)
(***************************************************************************)
\* A lazy QuerySet: the rows it selects and the order_by it carries
\* ("" when the helper sets none).
QuerySet(model, pks, ordering) ==
    [kind |-> "queryset", model |-> model, pks |-> pks, order_by |-> ordering]

RECURSIVE Orderings(_)
Orderings(S) ==
    IF S = {} THEN {<<>>}
    ELSE UNION {{<<x>> \o p : p \in Orderings(S \ {x})} : x \in S}

Table(model) == IF model = "DataProduct" THEN dataproducts ELSE reduceddatums

\* key of a row under an order_by: '-created' and '-timestamp' sort descending.
SortKey(model, ordering, pk) ==
    IF ordering = "-created" THEN Table(model)[pk].created
    ELSE Table(model)[pk].timestamp

\* The row sequences the database may answer a QuerySet with.  Rows that tie
\* under the order_by come in any order; a QuerySet without order_by comes in
\* the model's default ordering, which these helpers do not set: any order.
Evaluate(qs) ==
    {rows \in Orderings(qs.pks) :
        qs.order_by # "" =>
            \A i \in 1..Len(rows) : \A j \in 1..Len(rows) :
                i < j => SortKey(qs.model, qs.order_by, rows[i])
                            >= SortKey(qs.model, qs.order_by, rows[j])}

Min(a, b) == IF a < b THEN a ELSE b

\* qs[:k]
Slice(rows, k) == SubSeq(rows, 1, Min(k, Len(rows)))

\* guardian.shortcuts.get_objects_for_user(user, perm, klass=qs): a superuser
\* gets every row of klass, anyone else the rows the permission is granted on.
get_objects_for_user(user, codename, qs) ==
    IF user \in superusers THEN qs
    ELSE [qs EXCEPT !.pks = {pk \in @ : <<user, codename, pk>> \in perms}]

Ok(v) == [status |-> "ok", error |-> "", value |-> v]
Raise(e) == [status |-> "error", error |-> e, value |-> <<>>]

(***************************************************************************)
(* dataproduct_list_for_target, dataproduct_list_all                       *)
(***************************************************************************)
dataproduct_set(target) ==
    QuerySet("DataProduct",
             {pk \in DOMAIN dataproducts : dataproducts[pk].target = target}, "")

\* Faulty variant: the permission branch left out.
dataproduct_list_for_target_unchecked(user, target) == dataproduct_set(target)

dataproduct_list_for_target(user, target) ==
    IF settings.TARGET_PERMISSIONS_ONLY
    THEN dataproduct_set(target)
    ELSE get_objects_for_user(user, VIEW_DATAPRODUCT, dataproduct_set(target))

dataproduct_list_all(user) ==
    IF settings.TARGET_PERMISSIONS_ONLY
    THEN QuerySet("DataProduct", DOMAIN dataproducts, "-created")
    ELSE get_objects_for_user(user, VIEW_DATAPRODUCT,
                              QuerySet("DataProduct", DOMAIN dataproducts, ""))

\* What a call may end with.  The template partial iterates 'products': the
\* rows in an order the QuerySet evaluates to.
ListForTargetResults(user, target) ==
    {Ok([products |-> rows, target |-> target]) :
        rows \in Evaluate(dataproduct_list_for_target(user, target))}

ListAllResults(user) ==
    {Ok([products |-> rows]) : rows \in Evaluate(dataproduct_list_all(user))}

DataproductListForTarget ==
    /\ call = NoCall
    /\ \E user \in Users, target \in Targets :
          \E result \in ListForTargetResults(user, target) :
             call' = [helper |-> "dataproduct_list_for_target",
                      args |-> [user |-> user, target |-> target],
                      result |-> result]
    /\ UNCHANGED <<settings, store>>

DataproductListAll ==
    /\ call = NoCall
    /\ \E user \in Users :
          \E result \in ListAllResults(user) :
             call' = [helper |-> "dataproduct_list_all",
                      args |-> [user |-> user], result |-> result]
    /\ UNCHANGED <<settings, store>>

(***************************************************************************)
(* recent_photometry                                                       *)
(***************************************************************************)
recent_photometry_query(target) ==
    QuerySet("ReducedDatum",
             {pk \in DOMAIN reduceddatums :
                 /\ reduceddatums[pk].data_type = "photometry"
                 /\ reduceddatums[pk].target = target},
             "-timestamp")

\* Faulty variant: order_by('timestamp'), the oldest rows first.
recent_photometry_oldest_first(rows, limit) ==
    LET ascending == [i \in 1..Len(rows) |-> rows[Len(rows) + 1 - i]]
        photometry == Slice(ascending, limit)
        IsMagnitude(pk) == reduceddatums[pk].value_unit = MAGNITUDE
        kept == SelectSeq(photometry, IsMagnitude)
    IN  [data |-> [i \in 1..Len(kept) |->
                     [timestamp |-> reduceddatums[kept[i]].timestamp,
                      magnitude |-> reduceddatums[kept[i]].value]]]

\* rows: the evaluated, ordered query; the slice takes its first `limit` rows
\* and the comprehension keeps those in magnitudes.
recent_photometry(rows, limit) ==
    LET photometry == Slice(rows, limit)
        IsMagnitude(pk) == reduceddatums[pk].value_unit = MAGNITUDE
        kept == SelectSeq(photometry, IsMagnitude)
    IN  [data |-> [i \in 1..Len(kept) |->
                     [timestamp |-> reduceddatums[kept[i]].timestamp,
                      magnitude |-> reduceddatums[kept[i]].value]]]

RecentPhotometryResults(target, limit) ==
    {Ok(recent_photometry(rows, limit)) :
        rows \in Evaluate(recent_photometry_query(target))}

\* Faulty variant: the rows past the slice are deleted from the table.
RecentPhotometry_truncating ==
    /\ call = NoCall
    /\ \E target \in Targets, limit \in 0..MaxLimit :
          \E result \in RecentPhotometryResults(target, limit) :
             /\ call' = [helper |-> "recent_photometry",
                         args |-> [target |-> target, limit |-> limit],
                         result |-> result]
             /\ reduceddatums' = Slice(reduceddatums, limit)
    /\ UNCHANGED <<settings, dataproducts, perms, user_groups>>

RecentPhotometry ==
    /\ call = NoCall
    /\ \E target \in Targets, limit \in 0..MaxLimit :
          \E result \in RecentPhotometryResults(target, limit) :
             call' = [helper |-> "recent_photometry",
                      args |-> [target |-> target, limit |-> limit],
                      result |-> result]
    /\ UNCHANGED <<settings, store>>

(***************************************************************************)
(* photometry_for_target                                                   *)
(***************************************************************************)
\* Faulty variant: the open branch left out, every mode checks permissions.
photometry_datums_always_checked(user, target) ==
    IF "photometry" \notin DOMAIN settings.DATA_PRODUCT_TYPES
    THEN Raise("KeyError")
    ELSE Ok(get_objects_for_user(user, VIEW_REDUCEDDATUM,
              QuerySet("ReducedDatum",
                       {pk \in DOMAIN reduceddatums :
                           /\ reduceddatums[pk].target = target
                           /\ reduceddatums[pk].data_type
                                 = settings.DATA_PRODUCT_TYPES["photometry"][1]
                           /\ reduceddatums[pk].value_unit = MAGNITUDE},
                       "")))

\* The QuerySet of the branch taken, or the KeyError of the settings lookup.
photometry_datums(user, target) ==
    IF "photometry" \notin DOMAIN settings.DATA_PRODUCT_TYPES
    THEN Raise("KeyError")
    ELSE
      LET data_type == settings.DATA_PRODUCT_TYPES["photometry"][1]
          Matches(pk) == /\ reduceddatums[pk].target = target
                         /\ reduceddatums[pk].data_type = data_type
      IN  IF settings.TARGET_PERMISSIONS_ONLY
          THEN Ok(QuerySet("ReducedDatum",
                           {pk \in DOMAIN reduceddatums : Matches(pk)}, ""))
          ELSE Ok(get_objects_for_user(user, VIEW_REDUCEDDATUM,
                    QuerySet("ReducedDatum",
                             {pk \in DOMAIN reduceddatums :
                                 /\ Matches(pk)
                                 /\ reduceddatums[pk].value_unit = MAGNITUDE},
                             "")))

\* Faulty variant: the filter's entry assigned afresh instead of setdefault.
SetDefaultAppend_reset(photometry_data, datum) ==
    LET at == {i \in 1..Len(photometry_data) :
                  photometry_data[i].name = datum.filter}
        fresh == [name |-> datum.filter, time |-> <<datum.timestamp>>,
                  magnitude |-> <<datum.value>>, error |-> <<datum.error>>]
    IN  IF at = {} THEN Append(photometry_data, fresh)
        ELSE [photometry_data EXCEPT ![CHOOSE i \in at : TRUE] = fresh]

\* photometry_data is a dict in insertion order: a sequence of entries, one per
\* filter.  One turn of the loop: setdefault the filter's entry, append to its
\* three lists.
SetDefaultAppend(photometry_data, datum) ==
    LET at == {i \in 1..Len(photometry_data) :
                  photometry_data[i].name = datum.filter}
    IN  IF at = {}
        THEN Append(photometry_data,
                    [name |-> datum.filter, time |-> <<datum.timestamp>>,
                     magnitude |-> <<datum.value>>, error |-> <<datum.error>>])
        ELSE LET i == CHOOSE i \in at : TRUE
             IN  [photometry_data EXCEPT
                     ![i].time = Append(@, datum.timestamp),
                     ![i].magnitude = Append(@, datum.value),
                     ![i].error = Append(@, datum.error)]

RECURSIVE GroupByFilter(_, _)
GroupByFilter(rows, photometry_data) ==
    IF rows = <<>> THEN photometry_data
    ELSE GroupByFilter(Tail(rows),
                       SetDefaultAppend(photometry_data,
                                        reduceddatums[Head(rows)]))

color_map(name) ==
    CASE name = "r" -> "red" [] name = "g" -> "green" [] name = "i" -> "black"
      [] OTHER -> "None"

\* One go.Scatter per filter whose magnitude list is not empty.
photometry_plot_data(photometry_data) ==
    LET HasMagnitude(e) == e.magnitude # <<>>
        kept == SelectSeq(photometry_data, HasMagnitude)
    IN  [i \in 1..Len(kept) |->
            [x |-> kept[i].time, y |-> kept[i].magnitude, mode |-> "markers",
             color |-> color_map(kept[i].name), name |-> kept[i].name,
             error_y |-> kept[i].error]]

\* rows: the datums in the order the loop meets them.
photometry_for_target(target, rows) ==
    [target |-> target,
     plot |-> photometry_plot_data(GroupByFilter(rows, <<>>))]

PhotometryResults(user, target) ==
    LET datums == photometry_datums(user, target)
    IN  IF datums.status = "error" THEN {datums}
        ELSE {Ok(photometry_for_target(target, rows)) :
                 rows \in Evaluate(datums.value)}

PhotometryForTarget ==
    /\ call = NoCall
    /\ \E user \in Users, target \in Targets :
          \E result \in PhotometryResults(user, target) :
             call' = [helper |-> "photometry_for_target",
                      args |-> [user |-> user, target |-> target],
                      result |-> result]
    /\ UNCHANGED <<settings, store>>

(***************************************************************************)
(* spectroscopy_for_target                                                 *)
(***************************************************************************)
\* DataProduct.objects.get(data_product=dataproduct): the one DataProduct
\* that is `dataproduct`, a model instance and no QuerySet; DoesNotExist when
\* there is none.
DataProduct_get(dataproduct) ==
    IF dataproduct \in DOMAIN dataproducts
    THEN Ok([kind |-> "instance", model |-> "DataProduct", pk |-> dataproduct])
    ELSE Raise("DoesNotExist")

\* ReducedDatum.objects.filter(data_product__in=rhs): the lookup iterates rhs,
\* a TypeError when rhs is a model instance.
filter_data_product_in(rhs) ==
    IF rhs.kind = "queryset"
    THEN Ok(QuerySet("ReducedDatum",
                     {pk \in DOMAIN reduceddatums :
                         reduceddatums[pk].data_product \in rhs.pks}, ""))
    ELSE Raise("TypeError")

\* SpectrumSerializer().deserialize(value)
deserialize(value) ==
    IF value.kind = "spectrum"
    THEN Ok([wavelength |-> value.a, flux |-> value.b])
    ELSE Raise("DeserializeError")

\* The value bound to spectral_dataproducts before the datums are queried.
spectral_dataproducts(target, dataproduct) ==
    IF "spectroscopy" \notin DOMAIN settings.DATA_PRODUCT_TYPES
    THEN Raise("KeyError")
    ELSE
      LET data_product_type == settings.DATA_PRODUCT_TYPES["spectroscopy"][1]
          filtered ==
            QuerySet("DataProduct",
                     {pk \in DOMAIN dataproducts :
                         /\ dataproducts[pk].target = target
                         /\ dataproducts[pk].data_product_type
                               = data_product_type}, "")
      IN  IF dataproduct # NoValue
          THEN DataProduct_get(dataproduct)
          ELSE Ok(filtered)

spectroscopy_datums(user, target, dataproduct) ==
    LET products == spectral_dataproducts(target, dataproduct)
    IN  IF products.status = "error" THEN products
        ELSE LET datums == filter_data_product_in(products.value)
             IN  IF datums.status = "error" THEN datums
                 ELSE IF settings.TARGET_PERMISSIONS_ONLY THEN datums
                 ELSE Ok(get_objects_for_user(user, VIEW_REDUCEDDATUM,
                                              datums.value))

\* Faulty variant: a value that does not deserialize is skipped.
spectroscopy_for_target_skipping(target, rows) ==
    LET Good(pk) == deserialize(reduceddatums[pk].value).status = "ok"
        good == SelectSeq(rows, Good)
    IN  Ok([target |-> target,
            plot |-> [i \in 1..Len(good) |->
               LET deserialized ==
                      deserialize(reduceddatums[good[i]].value).value
               IN  [x |-> deserialized.wavelength, y |-> deserialized.flux,
                    name |-> <<"%Y%m%d-%H:%M:%s",
                               reduceddatums[good[i]].timestamp>>]]])

\* rows: the datums in the order the loop meets them; the first value that
\* does not deserialize ends the helper.
spectroscopy_for_target(target, rows) ==
    IF \E i \in 1..Len(rows) :
          deserialize(reduceddatums[rows[i]].value).status = "error"
    THEN Raise("DeserializeError")
    ELSE Ok([target |-> target,
             plot |-> [i \in 1..Len(rows) |->
                LET deserialized ==
                       deserialize(reduceddatums[rows[i]].value).value
                IN  [x |-> deserialized.wavelength, y |-> deserialized.flux,
                     name |-> <<"%Y%m%d-%H:%M:%s",
                                reduceddatums[rows[i]].timestamp>>]]])

SpectroscopyResults(user, target, dataproduct) ==
    LET datums == spectroscopy_datums(user, target, dataproduct)
    IN  IF datums.status = "error" THEN {datums}
        ELSE {spectroscopy_for_target(target, rows) :
                 rows \in Evaluate(datums.value)}

\* dataproduct: left out, a stored DataProduct, or one that is not stored.
SpectroscopyForTarget ==
    /\ call = NoCall
    /\ \E user \in Users, target \in Targets,
          dataproduct \in {NoValue} \cup 1..(Len(dataproducts) + 1) :
          \E result \in SpectroscopyResults(user, target, dataproduct) :
             call' = [helper |-> "spectroscopy_for_target",
                      args |-> [user |-> user, target |-> target,
                                dataproduct |-> dataproduct],
                      result |-> result]
    /\ UNCHANGED <<settings, store>>

(***************************************************************************)
(* dataproduct_list_for_observation_saved / _unsaved                       *)
(***************************************************************************)
\* request.GET.get('page_saved'): no such key, a text that is no integer, or
\* the text of an integer.
PageRequests ==
    {[kind |-> "missing", n |-> 0], [kind |-> "text", n |-> 0]}
    \cup {[kind |-> "integer", n |-> n] : n \in (0 - 1)..MaxPage}

\* the dictionary of a facility's all_data_products(): saved products 1..n,
\* unsaved products -1..-m.
DataProductDicts ==
    {[saved |-> [i \in 1..n |-> i], unsaved |-> [j \in 1..m |-> 0 - j]] :
        n \in 0..MaxSaved, m \in 0..MaxUnsaved}

\* Paginator.num_pages (orphans=0, allow_empty_first_page=True):
\* ceil(max(1, count) / per_page)
num_pages(count, per_page) ==
    LET hits == IF count > 1 THEN count ELSE 1
    IN  (hits + per_page - 1) \div per_page

\* Paginator.validate_number: the page number or the exception it raises.
validate_number(page, count, per_page) ==
    IF page.kind # "integer" THEN Raise("PageNotAnInteger")
    ELSE IF page.n < 1 THEN Raise("EmptyPage")
    ELSE IF page.n > num_pages(count, per_page) THEN Raise("EmptyPage")
    ELSE Ok(page.n)

\* Paginator.page(number): object_list[bottom:top]
Paginator_page(object_list, per_page, number) ==
    LET count == Len(object_list)
        bottom == (number - 1) * per_page
        top == IF bottom + per_page >= count THEN count ELSE bottom + per_page
    IN  [number |-> number, object_list |-> SubSeq(object_list, bottom + 1, top)]

\* Paginator.get_page(number): page 1 for PageNotAnInteger, the last page for
\* EmptyPage.
get_page(object_list, per_page, page) ==
    LET count == Len(object_list)
        valid == validate_number(page, count, per_page)
        number == IF valid.status = "ok" THEN valid.value
                  ELSE IF valid.error = "PageNotAnInteger" THEN 1
                  ELSE num_pages(count, per_page)
    IN  Paginator_page(object_list, per_page, number)

\* Faulty variant: the page read from a key the request does not carry.
dataproduct_list_for_observation_saved_wrong_key(data_products, page) ==
    [products_page |->
        get_page(data_products.saved, PER_PAGE, [kind |-> "missing", n |-> 0])]

dataproduct_list_for_observation_saved(data_products, page) ==
    [products_page |-> get_page(data_products.saved, PER_PAGE, page)]

dataproduct_list_for_observation_unsaved(data_products) ==
    [products |-> data_products.unsaved]

DataproductListForObservationSaved ==
    /\ call = NoCall
    /\ \E data_products \in DataProductDicts, page \in PageRequests :
          call' = [helper |-> "dataproduct_list_for_observation_saved",
                   args |-> [data_products |-> data_products, page |-> page],
                   result |-> Ok(dataproduct_list_for_observation_saved(
                                    data_products, page))]
    /\ UNCHANGED <<settings, store>>

DataproductListForObservationUnsaved ==
    /\ call = NoCall
    /\ \E data_products \in DataProductDicts :
          call' = [helper |-> "dataproduct_list_for_observation_unsaved",
                   args |-> [data_products |-> data_products],
                   result |-> Ok(dataproduct_list_for_observation_unsaved(
                                    data_products))]
    /\ UNCHANGED <<settings, store>>

\* The inclusion tag renders its template partial with the mapping and the
\* page goes on; an error ends the request.  Either way the next helper call
\* starts from the store as it is.
Render ==
    /\ call # NoCall
    /\ call' = NoCall
    /\ UNCHANGED <<settings, store>>

(***************************************************************************)
(* upload_dataproduct                                                      *)
(***************************************************************************)
\* The objects a page hands to the tag: a stored Target, a stored
\* ObservationRecord, or an object of another model.
Objects ==
    [model : {"Target", "ObservationRecord", "DataProduct"}, id : Targets]

\* django.urls.reverse(viewname, args=args): the URL that resolves to the view
\* of that name with those arguments.
reverse(viewname, args) == [viewname |-> viewname, args |-> args]

\* DataProductUploadForm(initial=initial): the initial data, and the queryset
\* of the 'groups' field as the form class declares it.
DataProductUploadForm(initial) ==
    [initial |-> initial,
     fields |-> [groups |-> [declared |-> TRUE, queryset |-> {}]]]

\* form.fields['groups'].queryset = queryset
SetGroupsQueryset(form, queryset) ==
    [form EXCEPT !.fields.groups = [declared |-> FALSE, queryset |-> queryset]]

\* Faulty variant: every user is offered every group.
upload_dataproduct_all_groups(user, obj) ==
    LET initial ==
           IF obj.model = "Target"
           THEN [target |-> obj,
                 referrer |-> reverse("bhtom_base.bhtom_targets:detail",
                                      <<obj.id>>)]
           ELSE IF obj.model = "ObservationRecord"
           THEN [observation_record |-> obj,
                 referrer |-> reverse("bhtom_base.bhtom_observations:detail",
                                      <<obj.id>>)]
           ELSE <<>>
        form == DataProductUploadForm(initial)
    IN  Ok([data_product_form |->
               IF ~settings.TARGET_PERMISSIONS_ONLY
               THEN SetGroupsQueryset(form, Groups)
               ELSE form])

upload_dataproduct(user, obj) ==
    LET initial ==
           IF obj.model = "Target"
           THEN [target |-> obj,
                 referrer |-> reverse("bhtom_base.bhtom_targets:detail",
                                      <<obj.id>>)]
           ELSE IF obj.model = "ObservationRecord"
           THEN [observation_record |-> obj,
                 referrer |-> reverse("bhtom_base.bhtom_observations:detail",
                                      <<obj.id>>)]
           ELSE <<>>
        form == DataProductUploadForm(initial)
    IN  Ok([data_product_form |->
               IF ~settings.TARGET_PERMISSIONS_ONLY
               THEN IF user \in superusers
                    THEN SetGroupsQueryset(form, Groups)
                    ELSE SetGroupsQueryset(form, user_groups[user])
               ELSE form])

UploadDataproduct ==
    /\ call = NoCall
    /\ \E user \in Users : \E obj \in Objects :
          call' = [helper |-> "upload_dataproduct",
                   args |-> [user |-> user, obj |-> obj],
                   result |-> upload_dataproduct(user, obj)]
    /\ UNCHANGED <<settings, store>>

(***************************************************************************)
(* bhtom2/settings.py: the module Django executes at startup.  It reads    *)
(* bhtom2/.bhtom.env through dotenv_values, builds the settings from the   *)
(* values found there, imports local_settings when there is one and hands  *)
(* the Sentry DSN to sentry_sdk.init.                                      *)
(***************************************************************************)
\* Python values: None, a str (the sequence of its characters), an int.
None == [type |-> "NoneType", chars |-> <<>>, int |-> 0]
StrValue(chars) == [type |-> "str", chars |-> chars, int |-> 0]
IntValue(n) == [type |-> "int", chars |-> <<>>, int |-> n]

\* The string literals of settings.py.
localhost == <<"l", "o", "c", "a", "l", "h", "o", "s", "t">>
bhtom == <<"b", "h", "t", "o", "m">>
bhtom2 == bhtom \o <<"2">>
test_bhtom2 == <<"t", "e", "s", "t", "_">> \o bhtom2
POSTGRESQL == "django.db.backends.postgresql"
SQLITE3 == "django.db.backends.sqlite3"

\* The keys settings.py looks up in the secret file.
SecretKeys ==
    {"ALLOWED_HOSTS", "SITE_ID", "CPCS_BASE_URL", "CPCS_DATA_ACCESS_HASHTAG",
     "POSTGRES_DB_NAME", "POSTGRES_DB_USER", "POSTGRES_PASSWORD",
     "POSTGRES_HOST", "POSTGRES_PORT", "POSTGRES_TEST_DB_NAME",
     "POSTGRES_TEST_PASSWORD", "POSTGRES_TEST_HOST", "POSTGRES_TEST_PORT",
     "GRAYLOG_HOST", "GRAYLOG_PORT", "SENTRY_SDK_DSN"}

\* The characters of the values written in the file: a letter, the comma
\* ALLOWED_HOSTS is split on, a digit.  The hosts are written with the letter
\* and the comma, the site id with the letter and the digit.
Chars(key) == IF key = "ALLOWED_HOSTS" THEN {"h", ","} ELSE {"h", "2"}
Texts(key) == UNION {[1..n -> Chars(key)] : n \in 0..MaxText}

\* A DSN sentry_sdk accepts: scheme://public_key@host/project_id.
ValidDsn ==
    <<"h", "t", "t", "p", "s", ":", "/", "/", "k", "@", "h", "/", "2">>

\* The values dotenv_values may give a key: the text after KEY=, or None for
\* a line that is the bare KEY.  The two settings the module parses get every
\* text; a key whose value is passed on as it is gets two texts.
FileValues(key) ==
    {None} \cup
    {StrValue(t) :
        t \in CASE key \in {"ALLOWED_HOSTS", "SITE_ID"} -> Texts(key)
                [] key = "SENTRY_SDK_DSN" -> {<<>>, <<"h">>, ValidDsn}
                [] OTHER -> {<<"h">>, <<"2">>}}

\* The sets of keys a file may hold (none when there is no file).
FileKeys == {keys \in SUBSET SecretKeys : Cardinality(keys) <= MaxKeys}

\* dotenv_values(path): the mappings of the keys of the file to values.
RECURSIVE dotenv_values(_)
dotenv_values(keys) ==
    IF keys = {} THEN {[k \in {} |-> None]}
    ELSE LET key == CHOOSE k \in keys : TRUE
         IN  {[k \in DOMAIN rest \cup {key} |->
                  IF k = key THEN value ELSE rest[k]] :
              rest \in dotenv_values(keys \ {key}),
              value \in FileValues(key)}

\* Faulty variant: a lookup that has no fallback.
secret_get_without_default(secret, key, default) ==
    IF key \in DOMAIN secret THEN secret[key] ELSE None

\* secret.get(key, default)
secret_get(secret, key, default) ==
    IF key \in DOMAIN secret THEN secret[key] ELSE default

\* str.split(sep): the pieces between the separators, empty pieces kept.
RECURSIVE split(_, _)
split(chars, sep) ==
    IF \A i \in 1..Len(chars) : chars[i] # sep THEN <<chars>>
    ELSE LET i == CHOOSE i \in 1..Len(chars) :
                     /\ chars[i] = sep
                     /\ \A j \in 1..(i - 1) : chars[j] # sep
         IN  <<SubSeq(chars, 1, i - 1)>>
                \o split(SubSeq(chars, i + 1, Len(chars)), sep)

Digits == {"0", "1", "2", "3", "4", "5", "6", "7", "8", "9"}

DigitValue(c) ==
    CASE c = "0" -> 0 [] c = "1" -> 1 [] c = "2" -> 2 [] c = "3" -> 3
      [] c = "4" -> 4 [] c = "5" -> 5 [] c = "6" -> 6 [] c = "7" -> 7
      [] c = "8" -> 8 [] OTHER -> 9

RECURSIVE ParseDigits(_)
ParseDigits(chars) ==
    IF chars = <<>> THEN 0
    ELSE 10 * ParseDigits(SubSeq(chars, 1, Len(chars) - 1))
            + DigitValue(chars[Len(chars)])

\* int(x): an int is itself, a str of digits its number (the texts drawn here
\* hold no sign, blank or underscore); any other str is a ValueError and None
\* a TypeError.
int(x) ==
    IF x.type = "int" THEN Ok(x)
    ELSE IF x.type = "NoneType" THEN Raise("TypeError")
    ELSE IF x.chars # <<>> /\ \A i \in 1..Len(x.chars) : x.chars[i] \in Digits
    THEN Ok(IntValue(ParseDigits(x.chars)))
    ELSE Raise("ValueError")

\* ALLOWED_HOSTS = [] + list(secret.get("ALLOWED_HOSTS", 'localhost').split(','))
ALLOWED_HOSTS(secret) ==
    LET value == secret_get(secret, "ALLOWED_HOSTS", StrValue(localhost))
    IN  IF value.type # "str" THEN Raise("AttributeError")
        ELSE Ok(split(value.chars, ","))

\* SITE_ID = int(secret.get("SITE_ID", 1))
SITE_ID(secret) == int(secret_get(secret, "SITE_ID", IntValue(1)))

\* DATABASES, with the overrides of a test run ('test' in sys.argv).
DATABASES(secret, test) ==
    LET default ==
           [NAME |-> secret_get(secret, "POSTGRES_DB_NAME", StrValue(bhtom2)),
            ENGINE |-> POSTGRESQL,
            USER |-> secret_get(secret, "POSTGRES_DB_USER", StrValue(bhtom)),
            PASSWORD |-> secret_get(secret, "POSTGRES_PASSWORD", StrValue(<<>>)),
            HOST |-> secret_get(secret, "POSTGRES_HOST", StrValue(localhost)),
            PORT |-> secret_get(secret, "POSTGRES_PORT", IntValue(5432)),
            TEST |-> [NAME |-> secret_get(secret, "POSTGRES_TEST_DB_NAME",
                                          StrValue(test_bhtom2))]]
    IN  [default |->
            IF test
            THEN [default EXCEPT
                    !.ENGINE = SQLITE3,
                    !.PASSWORD = secret_get(secret, "POSTGRES_TEST_PASSWORD",
                                            StrValue(<<>>)),
                    !.HOST = secret_get(secret, "POSTGRES_TEST_HOST",
                                        StrValue(localhost)),
                    !.PORT = secret_get(secret, "POSTGRES_TEST_PORT",
                                        IntValue(5432))]
            ELSE default]

\* LOGGING['handlers']['graypy']
LOGGING(secret) ==
    [handlers |->
        [graypy |->
            [host |-> secret_get(secret, "GRAYLOG_HOST", StrValue(localhost)),
             port |-> secret_get(secret, "GRAYLOG_PORT", IntValue(12201))]]]

\* What `from local_settings import *` finds: no module (ImportError), or a
\* module and the names it binds.
NoModule == [found |-> FALSE, names |-> <<>>]

LocalSettings ==
    {NoModule,
     [found |-> TRUE, names |-> [SITE_ID |-> IntValue(3)]],
     [found |-> TRUE, names |-> [TARGET_PERMISSIONS_ONLY |-> FALSE]]}

\* from local_settings import *  /  except ImportError: pass
import_local_settings(namespace, local_settings) ==
    IF ~local_settings.found THEN namespace
    ELSE [name \in DOMAIN namespace \cup DOMAIN local_settings.names |->
             IF name \in DOMAIN local_settings.names
             THEN local_settings.names[name] ELSE namespace[name]]

\* sentry_sdk.init(dsn=...): no DSN (None or '') leaves Sentry off; any other
\* text is parsed as a DSN, and BadDsn is raised for one that is none.
sentry_sdk_init(dsn) ==
    IF dsn.type = "NoneType" \/ dsn.chars = <<>> \/ dsn.chars = ValidDsn
    THEN Ok([dsn |-> dsn])
    ELSE Raise("BadDsn")

\* The module from its first line to its last: the settings it leaves, or the
\* error of the first statement that raises.
settings_py(secret, test, local_settings) ==
    LET hosts == ALLOWED_HOSTS(secret)
        site == SITE_ID(secret)
        sentry == sentry_sdk_init(
                     secret_get(secret, "SENTRY_SDK_DSN", StrValue(<<>>)))
        namespace ==
           [ALLOWED_HOSTS |-> hosts.value,
            SITE_ID |-> site.value,
            CPCS_BASE_URL |-> secret_get(secret, "CPCS_BASE_URL", None),
            CPCS_DATA_ACCESS_HASHTAG |->
               secret_get(secret, "CPCS_DATA_ACCESS_HASHTAG", None),
            DATABASES |-> DATABASES(secret, test),
            LOGGING |-> LOGGING(secret),
            DATA_PRODUCT_TYPES |-> DATA_PRODUCT_TYPES,
            TARGET_PERMISSIONS_ONLY |-> TRUE]
    IN  IF hosts.status = "error" THEN hosts
        ELSE IF site.status = "error" THEN site
        ELSE IF sentry.status = "error" THEN sentry
        ELSE Ok([settings |-> import_local_settings(namespace, local_settings),
                 sentry_sdk |-> sentry.value])

\* Django imports the settings module once; when the module raises, the
\* process has no settings.
Startup ==
    /\ call = NoCall
    /\ DOMAIN settings = {}
    /\ \E keys \in FileKeys : \E secret \in dotenv_values(keys) :
          \E test \in BOOLEAN : \E local_settings \in LocalSettings :
             LET result == settings_py(secret, test, local_settings)
             IN  /\ call' = [helper |-> "settings",
                             args |-> [secret |-> secret, test |-> test,
                                       local_settings |-> local_settings],
                             result |-> IF result.status = "ok"
                                        THEN Ok(result.value.sentry_sdk)
                                        ELSE result]
                 /\ settings' = IF result.status = "ok"
                                THEN result.value.settings ELSE settings
    /\ UNCHANGED store

(***************************************************************************)
(* Specifications                                                          *)
(***************************************************************************)
Next ==
    \/ DataproductListForTarget
    \/ DataproductListAll
    \/ RecentPhotometry
    \/ PhotometryForTarget
    \/ SpectroscopyForTarget
    \/ Render

Spec == Init /\ [][Next]_vars

\* The photometry helpers over stores of photometry rows.  The rows are
\* numbered in the order of their timestamps (the queries are evaluated in
\* every order they allow, so the numbering carries nothing else), and alice
\* is granted the first k of them.
InitPhot ==
    /\ settings \in SettingsFull
    /\ dataproducts = <<>>
    /\ \E m \in 0..MaxPhot :
          \E shapes \in [1..m -> PhotometryShapes] :
             /\ \A i \in 1..m : \A j \in 1..m :
                   i < j => shapes[i].timestamp <= shapes[j].timestamp
             /\ reduceddatums = [pk \in 1..m |-> Row(pk, shapes[pk])]
    /\ \E k \in 0..Len(reduceddatums) :
          perms = {<<"alice", VIEW_REDUCEDDATUM, pk>> : pk \in 1..k}
    /\ user_groups = NoGroups
    /\ call = NoCall

NextPhot ==
    \/ RecentPhotometry
    \/ PhotometryForTarget
    \/ Render

SpecPhot == InitPhot /\ [][NextPhot]_vars

\* The observation helpers: they read their arguments alone.
InitPage ==
    /\ settings \in SettingsFull
    /\ InitStore(0)

NextPage ==
    \/ DataproductListForObservationSaved
    \/ DataproductListForObservationUnsaved
    \/ Render

SpecPage == InitPage /\ [][NextPage]_vars

\* Every helper, over small stores.
InitAll ==
    /\ settings \in SettingsAny
    /\ InitStore(SmallStore)

NextAll ==
    \/ Next
    \/ NextPage

SpecAll == InitAll /\ [][NextAll]_vars

\* upload_dataproduct, over the group memberships of the users.
InitUpload ==
    /\ settings \in SettingsAny
    /\ dataproducts = <<>>
    /\ reduceddatums = <<>>
    /\ perms = {}
    /\ user_groups \in [Users -> SUBSET Groups]
    /\ call = NoCall

NextUpload ==
    \/ UploadDataproduct
    \/ Render

SpecUpload == InitUpload /\ [][NextUpload]_vars

\* Startup: the process before Django has imported bhtom2/settings.py.
InitStartup ==
    /\ settings = <<>>
    /\ dataproducts = <<>>
    /\ reduceddatums = <<>>
    /\ perms = {}
    /\ user_groups = NoGroups
    /\ call = NoCall

NextStartup == Startup

SpecStartup == InitStartup /\ [][NextStartup]_vars

(***************************************************************************)
(* Properties                                                              *)
(***************************************************************************)
Range(seq) == {seq[i] : i \in 1..Len(seq)}

Called(helper) == call # NoCall /\ call.helper = helper

Completed(helper) == Called(helper) /\ call.result.status = "ok"

\* Django's has_perm with an object: a superuser holds every permission.
HoldsPermission(user, codename, pk) ==
    user \in superusers \/ <<user, codename, pk>> \in perms

\* the rows whose magnitude a photometry plot shows, and the rows whose
\* spectrum a spectroscopy plot shows
PlottedPhotometry(plot) ==
    {pk \in DOMAIN reduceddatums :
        \E s \in 1..Len(plot) : \E i \in 1..Len(plot[s].y) :
           plot[s].y[i] = reduceddatums[pk].value}

PlottedSpectra(plot) ==
    {pk \in DOMAIN reduceddatums :
        /\ reduceddatums[pk].value.kind = "spectrum"
        /\ \E s \in 1..Len(plot) :
              /\ plot[s].x = reduceddatums[pk].value.a
              /\ plot[s].y = reduceddatums[pk].value.b}

\* every point and every series of a plot comes from a stored row
PlotFromStore(helper, plot) ==
    IF helper = "photometry_for_target"
    THEN \A s \in 1..Len(plot) : \A i \in 1..Len(plot[s].y) :
            \E pk \in DOMAIN reduceddatums :
               plot[s].y[i] = reduceddatums[pk].value
    ELSE \A s \in 1..Len(plot) :
            \E pk \in PlottedSpectra(plot) :
               plot[s].x = reduceddatums[pk].value.a

\* C1: in per-object permission mode every record that
\* dataproduct_list_for_target, dataproduct_list_all, photometry_for_target
\* and spectroscopy_for_target return or plot is one on which the requesting
\* user holds the view permission (view_dataproduct for data products,
\* view_reduceddatum for reduced datums).
C1_OnlyViewableRecords ==
    ~settings.TARGET_PERMISSIONS_ONLY =>
      /\ \A helper \in {"dataproduct_list_for_target", "dataproduct_list_all"} :
            Completed(helper) =>
               \A pk \in Range(call.result.value.products) :
                  HoldsPermission(call.args.user, VIEW_DATAPRODUCT, pk)
      /\ Completed("photometry_for_target") =>
            /\ PlotFromStore(call.helper, call.result.value.plot)
            /\ \A pk \in PlottedPhotometry(call.result.value.plot) :
                  HoldsPermission(call.args.user, VIEW_REDUCEDDATUM, pk)
      /\ Completed("spectroscopy_for_target") =>
            /\ PlotFromStore(call.helper, call.result.value.plot)
            /\ \A pk \in PlottedSpectra(call.result.value.plot) :
                  HoldsPermission(call.args.user, VIEW_REDUCEDDATUM, pk)

\* alice is shown one of the two data products of a target.
C1_Witness ==
    /\ ~settings.TARGET_PERMISSIONS_ONLY
    /\ Completed("dataproduct_list_for_target")
    /\ call.args.user = "alice"
    /\ Len(call.result.value.products) = 1
    /\ Cardinality(dataproduct_set(call.args.target).pks) = 2

\* C2: in open permission mode a call of dataproduct_list_for_target,
\* dataproduct_list_all, photometry_for_target or spectroscopy_for_target ends
\* for every user the way it ended for the caller, and a result holds every
\* record that matches the helper's target and type filter, whatever
\* permissions are granted.
C2_OpenModeSameForEveryone ==
    settings.TARGET_PERMISSIONS_ONLY =>
      /\ Called("dataproduct_list_for_target") =>
            /\ \A u \in Users :
                  call.result \in ListForTargetResults(u, call.args.target)
            /\ Range(call.result.value.products)
                  = {pk \in DOMAIN dataproducts :
                        dataproducts[pk].target = call.args.target}
      /\ Called("dataproduct_list_all") =>
            /\ \A u \in Users : call.result \in ListAllResults(u)
            /\ Range(call.result.value.products) = DOMAIN dataproducts
      /\ Called("photometry_for_target") =>
            /\ \A u \in Users :
                  call.result \in PhotometryResults(u, call.args.target)
            /\ call.result.status = "ok" =>
                  PlottedPhotometry(call.result.value.plot)
                     = {pk \in DOMAIN reduceddatums :
                           /\ reduceddatums[pk].target = call.args.target
                           /\ reduceddatums[pk].data_type = "photometry"}
      /\ Called("spectroscopy_for_target") =>
            /\ \A u \in Users :
                  call.result \in SpectroscopyResults(u, call.args.target,
                                                      call.args.dataproduct)
            /\ call.result.status = "ok" =>
                  PlottedSpectra(call.result.value.plot)
                     = {pk \in DOMAIN reduceddatums :
                           \E dp \in DOMAIN dataproducts :
                              /\ reduceddatums[pk].data_product = dp
                              /\ dataproducts[dp].target = call.args.target
                              /\ dataproducts[dp].data_product_type
                                    = "spectroscopy"}

\* bob, who is granted nothing, is shown a point of a photometry plot.
C2_Witness ==
    /\ settings.TARGET_PERMISSIONS_ONLY
    /\ Completed("photometry_for_target")
    /\ call.args.user = "bob"
    /\ PlottedPhotometry(call.result.value.plot) # {}

\* C3: dataproduct_list_all returns the data products most recent first in
\* both permission modes: of two products of the result, the one created
\* later comes earlier.
C3_MostRecentFirst ==
    Completed("dataproduct_list_all") =>
       LET products == call.result.value.products
       IN  \A i \in 1..Len(products) : \A j \in 1..Len(products) :
              i < j => dataproducts[products[i]].created
                          >= dataproducts[products[j]].created

\* C4 (first part): under the settings of settings.py, spectroscopy_for_target
\* called with a stored dataproduct completes and plots exactly the spectra of
\* the reduced datums of that data product the caller may see, none of
\* another data product.
C4_OnlyThatSpectrum ==
    (/\ Called("spectroscopy_for_target")
     /\ settings.DATA_PRODUCT_TYPES = DATA_PRODUCT_TYPES
     /\ call.args.dataproduct \in DOMAIN dataproducts) =>
       /\ call.result.status = "ok"
       /\ PlottedSpectra(call.result.value.plot)
             = {pk \in DOMAIN reduceddatums :
                   /\ reduceddatums[pk].data_product = call.args.dataproduct
                   /\ \/ settings.TARGET_PERMISSIONS_ONLY
                      \/ HoldsPermission(call.args.user, VIEW_REDUCEDDATUM, pk)}

\* C5: recent_photometry(target, limit) returns at most `limit` entries, each
\* the timestamp and magnitude of a photometry datum of the target in
\* magnitudes, in descending timestamp order, and no magnitude photometry
\* datum of the target left out is newer than one included.
C5_MostRecentPhotometry ==
    Completed("recent_photometry") =>
       LET data == call.result.value.data
           Point(pk) == /\ reduceddatums[pk].data_type = "photometry"
                        /\ reduceddatums[pk].target = call.args.target
                        /\ reduceddatums[pk].value_unit = MAGNITUDE
           points == {pk \in DOMAIN reduceddatums : Point(pk)}
           shown == {pk \in DOMAIN reduceddatums :
                        \E i \in 1..Len(data) :
                           data[i].magnitude = reduceddatums[pk].value}
       IN  /\ Len(data) <= call.args.limit
           /\ \A i \in 1..Len(data) : \E pk \in points :
                 data[i] = [timestamp |-> reduceddatums[pk].timestamp,
                            magnitude |-> reduceddatums[pk].value]
           /\ \A i \in 1..Len(data) : \A j \in 1..Len(data) :
                 i < j => data[i].timestamp >= data[j].timestamp
           /\ \A out \in points \ shown : \A in \in shown :
                 reduceddatums[out].timestamp <= reduceddatums[in].timestamp

\* limit 2 and two magnitude points of the target, one of them left out: a
\* newer row in another unit took its place in the slice.
C5_Witness ==
    /\ Completed("recent_photometry")
    /\ call.args.limit = 2
    /\ Len(call.result.value.data) = 1
    /\ Cardinality({pk \in DOMAIN reduceddatums :
                       /\ reduceddatums[pk].data_type = "photometry"
                       /\ reduceddatums[pk].target = call.args.target
                       /\ reduceddatums[pk].value_unit = MAGNITUDE}) = 2

\* C6: photometry_for_target groups the selected datums by filter: every
\* selected datum is one point of one series, the series named after its
\* filter; there is one series per filter among the selected datums, none
\* empty; and the time, magnitude and error arrays of a series are equally
\* long, index i of the three coming from one datum.
C6_GroupedByFilter ==
    Completed("photometry_for_target") =>
       LET plot == call.result.value.plot
           selected ==
              photometry_datums(call.args.user, call.args.target).value.pks
           places == UNION {{<<s, i>> : i \in 1..Len(plot[s].y)} :
                               s \in 1..Len(plot)}
           PlacesOf(pk) == {p \in places :
                               plot[p[1]].y[p[2]] = reduceddatums[pk].value}
       IN  /\ \A pk \in selected :
                 /\ Cardinality(PlacesOf(pk)) = 1
                 /\ \A p \in PlacesOf(pk) :
                       plot[p[1]].name = reduceddatums[pk].filter
           /\ Cardinality(places) = Cardinality(selected)
           /\ {plot[s].name : s \in 1..Len(plot)}
                 = {reduceddatums[pk].filter : pk \in selected}
           /\ \A s \in 1..Len(plot) : \A t \in 1..Len(plot) :
                 plot[s].name = plot[t].name => s = t
           /\ \A s \in 1..Len(plot) :
                 /\ Len(plot[s].y) >= 1
                 /\ Len(plot[s].x) = Len(plot[s].y)
                 /\ Len(plot[s].error_y) = Len(plot[s].y)
                 /\ \A i \in 1..Len(plot[s].y) : \E pk \in selected :
                       /\ plot[s].x[i] = reduceddatums[pk].timestamp
                       /\ plot[s].y[i] = reduceddatums[pk].value
                       /\ plot[s].error_y[i] = reduceddatums[pk].error

\* two series, one of them with two points.
C6_Witness ==
    /\ Completed("photometry_for_target")
    /\ Len(call.result.value.plot) = 2
    /\ \E s \in 1..2 : Len(call.result.value.plot[s].y) = 2

\* C7 (first part): in both permission modes every point photometry_for_target
\* hands to the chart is a photometry datum of the target whose value_unit is
\* MAGNITUDE.
C7_OnlyMagnitudePlotted ==
    Completed("photometry_for_target") =>
       /\ PlotFromStore(call.helper, call.result.value.plot)
       /\ \A pk \in PlottedPhotometry(call.result.value.plot) :
             /\ reduceddatums[pk].data_type = "photometry"
             /\ reduceddatums[pk].target = call.args.target
             /\ reduceddatums[pk].value_unit = MAGNITUDE

\* the page of a saved list that a numeric request asks for
SavedPage(data_products, k) ==
    dataproduct_list_for_observation_saved(
        data_products, [kind |-> "integer", n |-> k]).products_page.object_list

RECURSIVE SavedPages(_, _)
SavedPages(data_products, k) ==
    IF k = 0 THEN <<>>
    ELSE SavedPages(data_products, k - 1) \o SavedPage(data_products, k)

\* C8: dataproduct_list_for_observation_saved pages the saved list by 25: a
\* missing or non-numeric 'page_saved' resolves to page 1, an out-of-range one
\* to the last page, and the page returned for the resolved page k is
\* saved[(k-1)*25 : k*25]: at most 25 products, none of them unsaved; pages
\* 1..ceil(n/25) together are the saved list, each product once, in order.
C8_PagesOf25 ==
    Completed("dataproduct_list_for_observation_saved") =>
       LET saved == call.args.data_products.saved
           n == Len(saved)
           page == call.args.page
           pages == (n + 24) \div 25
           last == IF pages = 0 THEN 1 ELSE pages
           k == IF page.kind # "integer" THEN 1
                ELSE IF page.n >= 1 /\ page.n <= last THEN page.n
                ELSE last
           got == call.result.value.products_page
       IN  /\ got.number = k
           /\ Len(got.object_list) <= 25
           /\ got.object_list = SubSeq(saved, (k - 1) * 25 + 1, Min(k * 25, n))
           /\ Range(got.object_list)
                 \cap Range(call.args.data_products.unsaved) = {}
           /\ SavedPages(call.args.data_products, pages) = saved

\* a request past the end of a list of more than one page is answered with
\* the last, shorter page.
C8_Witness ==
    /\ Completed("dataproduct_list_for_observation_saved")
    /\ call.args.page.kind = "integer"
    /\ call.args.page.n = 3
    /\ call.result.value.products_page.number = 2
    /\ Len(call.result.value.products_page.object_list) = 1

C10_FailuresPropagate ==
    /\ Called("photometry_for_target") =>
          IF "photometry" \notin DOMAIN settings.DATA_PRODUCT_TYPES
          THEN call.result = Raise("KeyError")
          ELSE call.result.status = "ok"
    /\ Called("spectroscopy_for_target") =>
          LET dataproduct == call.args.dataproduct
              read == {pk \in DOMAIN reduceddatums :
                         /\ \E dp \in DOMAIN dataproducts :
                               /\ reduceddatums[pk].data_product = dp
                               /\ dataproducts[dp].target = call.args.target
                               /\ dataproducts[dp].data_product_type
                                     = "spectroscopy"
                         /\ \/ settings.TARGET_PERMISSIONS_ONLY
                            \/ HoldsPermission(call.args.user,
                                               VIEW_REDUCEDDATUM, pk)}
          IN  IF "spectroscopy" \notin DOMAIN settings.DATA_PRODUCT_TYPES
              THEN call.result = Raise("KeyError")
              ELSE IF dataproduct # NoValue
                      /\ dataproduct \notin DOMAIN dataproducts
              THEN call.result = Raise("DoesNotExist")
              ELSE IF dataproduct # NoValue
              THEN call.result = Raise("TypeError")
              ELSE IF \E pk \in read : reduceddatums[pk].value.kind # "spectrum"
              THEN call.result = Raise("DeserializeError")
              ELSE call.result.status = "ok"
    /\ (call # NoCall /\ call.result.status = "error") =>
          call.result.value = <<>>

\* a spectrum that does not deserialize ended spectroscopy_for_target.
C10_Witness ==
    /\ Called("spectroscopy_for_target")
    /\ call.result = Raise("DeserializeError")

\* the value a key has in the secret file of the startup, or the default
FileOrDefault(key, default) ==
    IF key \in DOMAIN call.args.secret THEN call.args.secret[key] ELSE default

\* settings.py completed and left these settings
StartupCompleted == Called("settings") /\ call.result.status = "ok"

\* the settings whose lookups a test run does not redirect are the file's
\* values where the key is present and the coded defaults where it is absent
SettingsFromFileOrDefault ==
    /\ settings.ALLOWED_HOSTS
          = split(FileOrDefault("ALLOWED_HOSTS", StrValue(localhost)).chars, ",")
    /\ "ALLOWED_HOSTS" \notin DOMAIN call.args.secret =>
          settings.ALLOWED_HOSTS = <<localhost>>
    /\ settings.CPCS_BASE_URL = FileOrDefault("CPCS_BASE_URL", None)
    /\ settings.CPCS_DATA_ACCESS_HASHTAG
          = FileOrDefault("CPCS_DATA_ACCESS_HASHTAG", None)
    /\ settings.DATABASES.default.NAME
          = FileOrDefault("POSTGRES_DB_NAME", StrValue(bhtom2))
    /\ settings.DATABASES.default.USER
          = FileOrDefault("POSTGRES_DB_USER", StrValue(bhtom))
    /\ settings.DATABASES.default.TEST.NAME
          = FileOrDefault("POSTGRES_TEST_DB_NAME", StrValue(test_bhtom2))
    /\ settings.LOGGING.handlers.graypy.host
          = FileOrDefault("GRAYLOG_HOST", StrValue(localhost))
    /\ settings.LOGGING.handlers.graypy.port
          = FileOrDefault("GRAYLOG_PORT", IntValue(12201))
    /\ call.result.value.dsn = FileOrDefault("SENTRY_SDK_DSN", StrValue(<<>>))

\* SITE_ID is the integer of the file's value, 1 by default
SiteIdFromFileOrDefault ==
    IF "SITE_ID" \in DOMAIN call.args.secret
    THEN settings.SITE_ID = int(call.args.secret["SITE_ID"]).value
    ELSE settings.SITE_ID = IntValue(1)

\* the connection settings are read under the keys prefix_PASSWORD,
\* prefix_HOST and prefix_PORT
ConnectionFromFileOrDefault(prefix) ==
    /\ settings.DATABASES.default.PASSWORD
          = FileOrDefault(prefix \o "_PASSWORD", StrValue(<<>>))
    /\ settings.DATABASES.default.HOST
          = FileOrDefault(prefix \o "_HOST", StrValue(localhost))
    /\ settings.DATABASES.default.PORT
          = FileOrDefault(prefix \o "_PORT", IntValue(5432))

\* C11 as the specification states it: for each key read with a fallback
\* startup completes whether the key is present or absent, the setting equals
\* the file's value when the key is present and the coded default when it is
\* absent (ALLOWED_HOSTS the comma-split list of the value, SITE_ID its
\* integer), and a missing local_settings module leaves all settings at these
\* values.
C11_DefaultForEveryKey ==
    Called("settings") =>
       /\ call.result.status = "ok"
       /\ ~call.args.local_settings.found =>
             /\ SettingsFromFileOrDefault
             /\ SiteIdFromFileOrDefault
             /\ ConnectionFromFileOrDefault("POSTGRES")

\* the values of the secret file on which a statement of settings.py raises
StartupRaises ==
    LET secret == call.args.secret
    IN  \/ /\ "ALLOWED_HOSTS" \in DOMAIN secret
           /\ secret["ALLOWED_HOSTS"] = None
        \/ /\ "SITE_ID" \in DOMAIN secret
           /\ \/ secret["SITE_ID"] = None
              \/ secret["SITE_ID"].chars = <<>>
              \/ \E i \in 1..Len(secret["SITE_ID"].chars) :
                    secret["SITE_ID"].chars[i] \notin Digits
        \/ /\ "SENTRY_SDK_DSN" \in DOMAIN secret
           /\ secret["SENTRY_SDK_DSN"] \notin
                 {None, StrValue(<<>>), StrValue(ValidDsn)}

\* C11, amended: startup completes whether a key is present or absent unless
\* ALLOWED_HOSTS is present without a value, SITE_ID is present with a value
\* that is not an integer, or SENTRY_SDK_DSN is present with a text that is no
\* DSN; when it completes and no local_settings module is found, every setting
\* is the file's value where the key is present and the coded default where it
\* is absent (ALLOWED_HOSTS the comma-split list, SITE_ID the integer), except
\* that in a test run the database PASSWORD, HOST and PORT are read under
\* POSTGRES_TEST_PASSWORD, POSTGRES_TEST_HOST and POSTGRES_TEST_PORT (same
\* defaults) and not under POSTGRES_PASSWORD, POSTGRES_HOST and POSTGRES_PORT.
C11_DefaultsOutsideTestRuns ==
    Called("settings") =>
       /\ call.result.status = "ok" <=> ~StartupRaises
       /\ (call.result.status = "ok" /\ ~call.args.local_settings.found) =>
             /\ SettingsFromFileOrDefault
             /\ SiteIdFromFileOrDefault
             /\ IF call.args.test
                THEN ConnectionFromFileOrDefault("POSTGRES_TEST")
                ELSE ConnectionFromFileOrDefault("POSTGRES")

\* startup completed, with no local_settings module, on a file that gives
\* ALLOWED_HOSTS two hosts and leaves every other key to its default.
C11_Witness ==
    /\ StartupCompleted
    /\ ~call.args.local_settings.found
    /\ ~call.args.test
    /\ DOMAIN call.args.secret = {"ALLOWED_HOSTS"}
    /\ call.args.secret["ALLOWED_HOSTS"] = StrValue(<<"h", ",", "h">>)
    /\ settings.ALLOWED_HOSTS = <<(<<"h">>), (<<"h">>)>>
    /\ settings.SITE_ID = IntValue(1)
    /\ settings.DATABASES.default.PORT = IntValue(5432)

\* C12: upload_dataproduct builds the upload form from the object and the
\* user: for a Target the initial data holds exactly 'target' and a
\* 'referrer' to that target's detail page, for an ObservationRecord exactly
\* 'observation_record' and a 'referrer' to that record's detail page, and
\* for any other object it is empty; in per-object permission mode the
\* selectable groups are all groups when the user is a superuser and
\* otherwise only the groups the user belongs to, while in open mode the
\* form's group choices are left as the form defines them.
C12_UploadForm ==
    Called("upload_dataproduct") =>
       LET obj == call.args.obj
           user == call.args.user
           form == call.result.value.data_product_form
           initial == form.initial
           groups == form.fields.groups
       IN  /\ call.result.status = "ok"
           /\ DOMAIN call.result.value = {"data_product_form"}
           /\ obj.model = "Target" =>
                 /\ DOMAIN initial = {"target", "referrer"}
                 /\ initial.target = obj
                 /\ initial.referrer.viewname = "bhtom_base.bhtom_targets:detail"
                 /\ initial.referrer.args = <<obj.id>>
           /\ obj.model = "ObservationRecord" =>
                 /\ DOMAIN initial = {"observation_record", "referrer"}
                 /\ initial.observation_record = obj
                 /\ initial.referrer.viewname
                       = "bhtom_base.bhtom_observations:detail"
                 /\ initial.referrer.args = <<obj.id>>
           /\ obj.model \notin {"Target", "ObservationRecord"} =>
                 DOMAIN initial = {}
           /\ IF settings.TARGET_PERMISSIONS_ONLY
              THEN groups.declared
              ELSE /\ ~groups.declared
                   /\ user \in superusers => groups.queryset = Groups
                   /\ user \notin superusers =>
                         groups.queryset = user_groups[user]

\* in per-object permission mode alice, who belongs to one of the two groups,
\* is offered that group alone on the upload form of a target.
C12_Witness ==
    /\ Completed("upload_dataproduct")
    /\ ~settings.TARGET_PERMISSIONS_ONLY
    /\ call.args.user = "alice"
    /\ call.args.obj.model = "Target"
    /\ user_groups["alice"] = {"observers"}
    /\ call.result.value.data_product_form.fields.groups.queryset
          = {"observers"}
    /\ "referrer" \in DOMAIN call.result.value.data_product_form.initial
====
